---- MODULE Spec2Model ----
(***************************************************************************)
(* Model of hyperspec.registration.register / validate_homography and of   *)
(* hyperspec.stats.pca.                                                    *)
(*                                                                         *)
(* Numbers.  A homography is a 3x3 matrix h (rows and columns numbered     *)
(* from 1, so the source's homog[2, 0] is h[3][1]).  Rows 1 and 2 are in   *)
(* units of 1/AffScale, row 3 in units of 1/PerspScale, so that the        *)
(* 0.001 perspective threshold and the 10% area tolerance both fall on     *)
(* representable values.  Pixel values of a cube are in units of           *)
(* 1/PixScale, which makes the bilinear weights of warpPerspective (1/32   *)
(* sub-pixel steps, so 1/1024 weight steps) exact.                         *)
(***************************************************************************)
EXTENDS Integers, Sequences, FiniteSets, TLC

\* ---------------------------------------------------------------- bounds
ImgSize == 3        \* rows and columns of a cube
NumBands == 2       \* spectral bands of a cube
MaxScale == 1       \* diagonal of the homography: 1 +- MaxScale/AffScale
MaxShear == 1       \* h[0,1] is 0 or MaxShear (units 1/AffScale)
MaxShift == 1       \* translation in whole pixels, up to MaxShift either way
MaxPersp == 2       \* |h[2,0]|, |h[2,1]| up to MaxPersp (units 1/PerspScale)
PcaBands == 3       \* bands of the cube given to pca
MaxVar == 3         \* largest explained variance of one component

\* ---------------------------------------------------- units and constants
AffScale == 20
PerspScale == 1000
PtScale == 1000     \* resolution of the transformed unit-square corners
PixScale == 1024    \* INTER_TAB_SIZE * INTER_TAB_SIZE
InterTab == 32      \* INTER_TAB_SIZE of warpPerspective
BorderValue == -999
PreviewBorder == 0
TolPercent == 10    \* tol = 0.1
PerspLimit == 1     \* 0.001 in units of 1/PerspScale
VarDen == 10        \* min_contained_var is given in tenths

\* an optional value: None, or Some(v)
None == [some |-> FALSE]

Some(v) == [some |-> TRUE, val |-> v]

Abs(n) == IF n < 0 THEN -n ELSE n

Min(a, b) == IF a < b THEN a ELSE b

Max(a, b) == IF a > b THEN a ELSE b

\* n / d rounded to the nearest integer, for any sign of d # 0
Round(n, d) == IF d > 0 THEN (2 * n + d) \div (2 * d)
               ELSE (2 * (-n) + (-d)) \div (2 * (-d))

\* ------------------------------------------------------ validate_homography
\* np.linalg.det(homog[:2, :2]); the sign does not depend on the units
Det2(h) == h[1][1] * h[2][2] - h[1][2] * h[2][1]

\* np.linalg.det(homog), times AffScale * AffScale * PerspScale
Det3(h) == h[1][1] * (h[2][2] * h[3][3] - h[2][3] * h[3][2])
         - h[1][2] * (h[2][1] * h[3][3] - h[2][3] * h[3][1])
         + h[1][3] * (h[2][1] * h[3][2] - h[2][2] * h[3][1])

\* np.isclose(det, 0.0): |det| <= atol = 1e-8, with det = d / 400000
IsCloseToZero(d) == Abs(d) * 250 <= 1

UnitSquare == << <<0, 0>>, <<1, 0>>, <<1, 1>>, <<0, 1>> >>

\* cv2.perspectiveTransform of one point, in units of 1/PtScale;
\* a zero denominator gives the point (0, 0)
perspectiveTransform(pt, h) ==
    LET X == h[1][1] * pt[1] + h[1][2] * pt[2] + h[1][3]
        Y == h[2][1] * pt[1] + h[2][2] * pt[2] + h[2][3]
        W == h[3][1] * pt[1] + h[3][2] * pt[2] + h[3][3]
        k == (PerspScale \div AffScale) * PtScale
    IN IF W = 0 THEN <<0, 0>>
       ELSE << Round(k * X, W), Round(k * Y, W) >>

\* twice cv2.contourArea (unsigned) of the four points, in units of 1/PtScale^2
contourArea2(pts) ==
    LET nxt(i) == IF i = 4 THEN 1 ELSE i + 1
        term(i) == pts[i][1] * pts[nxt(i)][2] - pts[nxt(i)][1] * pts[i][2]
    IN Abs(term(1) + term(2) + term(3) + term(4))

Area2(h) == contourArea2([i \in 1..4 |-> perspectiveTransform(UnitSquare[i], h)])

AreaLow2 == 2 * (((100 - TolPercent) * PtScale * PtScale) \div 100)

AreaHigh2 == 2 * (((100 + TolPercent) * PtScale * PtScale) \div 100)

\* validate_homography with the perspective check reading h[2, 0] only
validate_homography_h20only(h) ==
    IF Det2(h) < 0 THEN "Homography does not preserve orientation"
    ELSE IF IsCloseToZero(Det3(h)) THEN "Homography transform is non-invertable"
    ELSE IF Area2(h) < AreaLow2 \/ Area2(h) > AreaHigh2
         THEN "Homography does not preserve area"
    ELSE IF Abs(h[3][1]) > PerspLimit
         THEN "Homography results in large perspective shift"
    ELSE "ok"

\* the checks of validate_homography in the source's order; "ok" or the error
validate_homography(h) ==
    IF Det2(h) < 0 THEN "Homography does not preserve orientation"
    ELSE IF IsCloseToZero(Det3(h)) THEN "Homography transform is non-invertable"
    ELSE IF Area2(h) < AreaLow2 \/ Area2(h) > AreaHigh2
         THEN "Homography does not preserve area"
    ELSE IF Abs(h[3][1]) > PerspLimit \/ Abs(h[3][2]) > PerspLimit
         THEN "Homography results in large perspective shift"
    ELSE "ok"

\* --------------------------------------------------------- warpPerspective
\* adjugate of h: the inverse up to the factor 1 / det, which cancels in the
\* projective division
Adj(h) ==
    << << h[2][2] * h[3][3] - h[2][3] * h[3][2],
          h[1][3] * h[3][2] - h[1][2] * h[3][3],
          h[1][2] * h[2][3] - h[1][3] * h[2][2] >>,
       << h[2][3] * h[3][1] - h[2][1] * h[3][3],
          h[1][1] * h[3][3] - h[1][3] * h[3][1],
          h[1][3] * h[2][1] - h[1][1] * h[2][3] >>,
       << h[2][1] * h[3][2] - h[2][2] * h[3][1],
          h[1][2] * h[3][1] - h[1][1] * h[3][2],
          h[1][1] * h[2][2] - h[1][2] * h[2][1] >> >>

Rows(img) == Len(img)

Cols(img) == IF Len(img) = 0 THEN 0 ELSE Len(img[1])

\* src[y][x] (0-based) or the border value outside the image (BORDER_CONSTANT)
PixelAt(src, y, x, border) ==
    IF y >= 0 /\ y < Rows(src) /\ x >= 0 /\ x < Cols(src)
    THEN src[y + 1][x + 1] ELSE border

\* source position of destination pixel (x, y), in 1/InterTab pixel steps
SourcePos(h, x, y) ==
    LET A == Adj(h)
        k == PerspScale \div AffScale
        U == A[1][1] * x + A[1][2] * y + A[1][3] * k
        V == A[2][1] * x + A[2][2] * y + A[2][3] * k
        W == A[3][1] * x + A[3][2] * y + A[3][3] * k
    IN IF W = 0 THEN <<0, 0>>
       ELSE << Round(InterTab * U, W), Round(InterTab * V, W) >>

\* bilinear interpolation (INTER_LINEAR) at a source position
Bilinear(src, pos, border) ==
    LET sx == pos[1] \div InterTab
        sy == pos[2] \div InterTab
        fx == pos[1] % InterTab
        fy == pos[2] % InterTab
        s == (InterTab - fx) * (InterTab - fy) * PixelAt(src, sy, sx, border)
           + fx * (InterTab - fy) * PixelAt(src, sy, sx + 1, border)
           + (InterTab - fx) * fy * PixelAt(src, sy + 1, sx, border)
           + fx * fy * PixelAt(src, sy + 1, sx + 1, border)
    IN (s + (PixScale \div 2)) \div PixScale

\* cv2.warpPerspective(src, h, dsize, borderValue=border); dsize = <<width, height>>
warpPerspective(src, h, dsize, border) ==
    [r \in 1..dsize[2] |->
        [c \in 1..dsize[1] |-> Bilinear(src, SourcePos(h, c - 1, r - 1), border)]]

\* shape[:2][::-1] of a 2-D image
ShapeReversed(img) == << Cols(img), Rows(img) >>

\* ------------------------------------------------------------------ inputs
\* a cube is indexed [row][column][band]; seeds give different contents, an
\* odd seed has a negative value at the centre pixel of band 1
CubeOf(seed) ==
    [r \in 1..ImgSize |-> [c \in 1..ImgSize |-> [b \in 1..NumBands |->
        IF seed % 2 = 1 /\ r = 2 /\ c = 2 /\ b = 1 THEN -PixScale
        ELSE PixScale * ((r + 2 * c + 3 * b + seed) % 4)]]]

\* a preview is [ndim, data]: a 2-D grey image, or a 3-D BGR image
GreyPreview(seed, cols) ==
    [ndim |-> 2,
     data |-> [r \in 1..ImgSize |-> [c \in 1..cols |-> (40 * r + 10 * c + seed) % 256]]]

ColourPreview(seed, cols) ==
    [ndim |-> 3,
     data |-> [r \in 1..ImgSize |-> [c \in 1..cols |->
                 << (40 * r + seed) % 256, (10 * c + seed) % 256, (7 * (r + c)) % 256 >>]]]

\* cv2.cvtColor(img, cv2.COLOR_BGR2GRAY) on 8-bit pixels
cvtColor(img) ==
    [ndim |-> 2,
     data |-> [r \in 1..Rows(img.data) |-> [c \in 1..Cols(img.data) |->
                 (1868 * img.data[r][c][1] + 9617 * img.data[r][c][2]
                  + 4899 * img.data[r][c][3] + 8192) \div 16384]]]

\* the matrices cv2.findHomography may return; h[2,2] is normalised to 1
Homographies ==
    { << <<a, b, AffScale * tx>>, <<0, d, AffScale * ty>>, <<p, q, PerspScale>> >> :
        a \in {-AffScale, 0} \cup ((AffScale - MaxScale)..(AffScale + MaxScale)),
        b \in {0, MaxShear},
        d \in {AffScale, AffScale + MaxScale},
        tx \in (-MaxShift)..MaxShift,
        ty \in {0, MaxShift},
        p \in (-MaxPersp)..MaxPersp,
        q \in {0, MaxPersp} }

\* ------------------------------------------------------------------- cubes
Band(cube, b) == [r \in 1..Rows(cube) |-> [c \in 1..Cols(cube) |-> cube[r][c][b]]]

\* a result object: ref names the buffer the data lives in
\* "result = dst_cube": no new array, the name is bound to the caller's cube
zeros_like_noCopy(cube) == [some |-> TRUE, ref |-> "dst_cube", data |-> cube]

\* xr.zeros_like(cube): a fresh array of the same shape
zeros_like(cube) ==
    [some |-> TRUE, ref |-> "fresh",
     data |-> [r \in 1..Rows(cube) |-> [c \in 1..Cols(cube) |-> [b \in 1..NumBands |-> 0]]]]

\* result.loc[..., band] = img; shapes must agree
SetBand(cube, b, img) ==
    [r \in 1..Rows(cube) |-> [c \in 1..Cols(cube) |->
        [cube[r][c] EXCEPT ![b] = img[r][c]]]]

SameShape(cube, img) == Rows(cube) = Rows(img) /\ Cols(cube) = Cols(img)

\* np.any(result == -999): only the exact fill value is looked for
AnyNegative_fillOnly(cube) ==
    \E r \in 1..Rows(cube) : \E c \in 1..Cols(cube) : \E b \in 1..NumBands :
        cube[r][c][b] = BorderValue * PixScale

\* np.any(result < 0)
AnyNegative(cube) ==
    \E r \in 1..Rows(cube) : \E c \in 1..Cols(cube) : \E b \in 1..NumBands : cube[r][c][b] < 0

\* result[1:-1, 1:-1, :]
CropBorder(cube) ==
    LET inner == SubSeq(cube, 2, Len(cube) - 1)
    IN [r \in 1..Len(inner) |-> SubSeq(inner[r], 2, Len(inner[r]) - 1)]

\* ------------------------------------------------------------------- state
VARIABLES
    pc,               \* position in register, "idle" when register is not modelled
    dst_preview, dst_cube, src_preview, src_cube,   \* the caller's objects
    crop_registered,
    args0,            \* the caller's objects as they were at the call
    l_dst_preview, l_src_preview,   \* register's local names after lines 82-85
    matched_vis,
    homog,
    result_preview,
    result,           \* None or [some, ref, data]
    band,             \* next band of the loop of line 118
    border_crop,
    warnings,         \* messages passed to warn
    exc,              \* the exception raised inside register, or None
    ret,              \* the returned tuple, or None
    log,              \* the pipeline steps taken so far
    pca_pc, explained_variance, n_components, min_contained_var, keep_components, pca_out

regVars == << pc, dst_preview, dst_cube, src_preview, src_cube, crop_registered, args0,
              l_dst_preview, l_src_preview, matched_vis, homog, result_preview, result,
              band, border_crop, warnings, exc, ret, log >>

pcaVars == << pca_pc, explained_variance, n_components, min_contained_var,
              keep_components, pca_out >>

vars == << regVars, pcaVars >>

callerVars == << dst_preview, dst_cube, src_preview, src_cube, crop_registered, args0 >>

PcaIdle ==
    /\ pca_pc = "idle"
    /\ explained_variance = << >>
    /\ n_components = 0
    /\ min_contained_var = 0
    /\ keep_components = 0
    /\ pca_out = [error |-> "", components |-> 0]

\* "except Exception": the handler catches every exception
Catches_all(type) == TRUE

\* line 123, "except cv2.error": the exception types the handler catches
Catches(type) == type = "cv2.error"

\* where control goes when an exception of this type is raised in lines 105-122
RaiseTo(type) == IF Catches(type) THEN "except" ELSE "raised"

\* the warp of one band without borderValue: OpenCV's default fill of 0
WarpedBand_defaultBorder(b) ==
    warpPerspective(Band(src_cube, b), homog.val, ShapeReversed(l_dst_preview.data), 0)

\* lines 119-121: the warp of one band of the source cube
WarpedBand(b) ==
    warpPerspective(Band(src_cube, b), homog.val, ShapeReversed(l_dst_preview.data),
                    BorderValue * PixScale)

\* the state at the call of register
Init ==
    /\ \E colour \in BOOLEAN, wide \in BOOLEAN :
       LET seed == IF colour THEN 1 ELSE 0 IN
          /\ dst_cube = CubeOf(seed + 1)
          /\ src_cube = CubeOf(seed)
          /\ dst_preview = IF colour
                           THEN ColourPreview(seed + 1, IF wide THEN ImgSize + 1 ELSE ImgSize)
                           ELSE GreyPreview(seed + 1, IF wide THEN ImgSize + 1 ELSE ImgSize)
          /\ src_preview = IF colour THEN ColourPreview(seed, ImgSize)
                           ELSE GreyPreview(seed, ImgSize)
    /\ crop_registered \in BOOLEAN
    /\ args0 = [dst_preview |-> dst_preview, dst_cube |-> dst_cube,
                src_preview |-> src_preview, src_cube |-> src_cube]
    /\ pc = "gray"
    /\ l_dst_preview = dst_preview
    /\ l_src_preview = src_preview
    /\ matched_vis = None
    /\ homog = None
    /\ result_preview = None
    /\ result = None
    /\ band = 1
    /\ border_crop = 0
    /\ warnings = << >>
    /\ exc = None
    /\ ret = None
    /\ log = << >>
    /\ PcaIdle

\* lines 82-85: a colour preview is replaced, under the local name, by a grey copy
ToGray ==
    /\ pc = "gray"
    /\ l_dst_preview' = IF dst_preview.ndim # 2 THEN cvtColor(dst_preview) ELSE dst_preview
    /\ l_src_preview' = IF src_preview.ndim # 2 THEN cvtColor(src_preview) ELSE src_preview
    /\ pc' = "detect"
    /\ UNCHANGED << callerVars, matched_vis, homog, result_preview, result, band,
                    border_crop, warnings, exc, ret, log, pcaVars >>

\* lines 88-93: ORB keypoints and descriptors of both previews
Detect ==
    /\ pc = "detect"
    /\ pc' = "match"
    /\ log' = Append(log, "detect")
    /\ UNCHANGED << callerVars, l_dst_preview, l_src_preview, matched_vis, homog,
                    result_preview, result, band, border_crop, warnings, exc, ret, pcaVars >>

\* lines 95-102: brute-force matching and the visualisation of the matches
Match ==
    /\ pc = "match"
    /\ matched_vis' = Some("matched_vis")
    /\ pc' = "estimate"
    /\ log' = Append(log, "match")
    /\ UNCHANGED << callerVars, l_dst_preview, l_src_preview, homog, result_preview,
                    result, band, border_crop, warnings, exc, ret, pcaVars >>

\* lines 105-107: cv2.findHomography returns a matrix
EstimateFound ==
    /\ pc = "estimate"
    /\ \E h \in Homographies : homog' = Some(h)
    /\ pc' = "validate"
    /\ log' = Append(log, "estimate")
    /\ UNCHANGED << callerVars, l_dst_preview, l_src_preview, matched_vis, result_preview,
                    result, band, border_crop, warnings, exc, ret, pcaVars >>

\* lines 107-111: cv2.findHomography returns None, and register raises cv2.error;
\* err.msg of an error constructed from Python is the message or None
EstimateNone ==
    /\ pc = "estimate"
    /\ homog' = None
    /\ \E m \in {"Homography could not be found", "None"} :
          exc' = Some([type |-> "cv2.error", msg |-> m])
    /\ pc' = RaiseTo("cv2.error")
    /\ log' = Append(log, "estimate")
    /\ UNCHANGED << callerVars, l_dst_preview, l_src_preview, matched_vis, result_preview,
                    result, band, border_crop, warnings, ret, pcaVars >>

\* line 107: cv2.findHomography itself raises cv2.error
EstimateError ==
    /\ pc = "estimate"
    /\ exc' = Some([type |-> "cv2.error", msg |-> "findHomography"])
    /\ pc' = RaiseTo("cv2.error")
    /\ log' = Append(log, "estimate")
    /\ UNCHANGED << callerVars, l_dst_preview, l_src_preview, matched_vis, homog,
                    result_preview, result, band, border_crop, warnings, ret, pcaVars >>

\* line 113: validate_homography; its ValueError is not caught by line 123
Validate ==
    /\ pc = "validate"
    /\ log' = Append(log, "validate")
    /\ IF validate_homography(homog.val) = "ok"
       THEN /\ pc' = "warp_preview"
            /\ exc' = exc
       ELSE /\ pc' = RaiseTo("ValueError")
            /\ exc' = Some([type |-> "ValueError", msg |-> validate_homography(homog.val)])
    /\ UNCHANGED << callerVars, l_dst_preview, l_src_preview, matched_vis, homog,
                    result_preview, result, band, border_crop, warnings, ret, pcaVars >>

\* line 115
WarpPreview ==
    /\ pc = "warp_preview"
    /\ result_preview' = Some(warpPerspective(l_src_preview.data, homog.val,
                                              ShapeReversed(l_src_preview.data),
                                              PreviewBorder))
    /\ pc' = "zeros"
    /\ log' = Append(log, "warp_preview")
    /\ UNCHANGED << callerVars, l_dst_preview, l_src_preview, matched_vis, homog,
                    result, band, border_crop, warnings, exc, ret, pcaVars >>

\* line 117
ZerosLike ==
    /\ pc = "zeros"
    /\ result' = zeros_like(dst_cube)
    /\ band' = 1
    /\ pc' = "warp_band"
    /\ UNCHANGED << callerVars, l_dst_preview, l_src_preview, matched_vis, homog,
                    result_preview, border_crop, warnings, exc, ret, log, pcaVars >>

\* lines 118-121, one band: warp it with homog and store it in result
WarpBand ==
    /\ pc = "warp_band"
    /\ band <= NumBands
    /\ LET warped == WarpedBand(band)
       IN IF SameShape(result.data, warped)
          THEN /\ result' = [result EXCEPT !.data = SetBand(result.data, band, warped)]
               /\ band' = band + 1
               /\ pc' = pc
               /\ exc' = exc
          ELSE /\ pc' = RaiseTo("ValueError")
               /\ exc' = Some([type |-> "ValueError", msg |-> "shape mismatch"])
               /\ UNCHANGED << result, band >>
    /\ dst_cube' = IF result.ref = "dst_cube" THEN result'.data ELSE dst_cube
    /\ log' = Append(log, "warp_band")
    /\ UNCHANGED << dst_preview, src_preview, src_cube, crop_registered, args0,
                    l_dst_preview, l_src_preview, matched_vis, homog, result_preview,
                    border_crop, warnings, ret, pcaVars >>

\* lines 115-121: cv2.warpPerspective raises cv2.error
WarpError ==
    /\ \/ pc = "warp_preview"
       \/ pc = "warp_band" /\ band <= NumBands
    /\ exc' = Some([type |-> "cv2.error", msg |-> "warpPerspective"])
    /\ pc' = RaiseTo("cv2.error")
    /\ UNCHANGED << callerVars, l_dst_preview, l_src_preview, matched_vis, homog,
                    result_preview, result, band, border_crop, warnings, ret, log, pcaVars >>

\* the loop of line 118 left one band early
WarpDone_early ==
    /\ pc = "warp_band"
    /\ band >= NumBands
    /\ pc' = IF crop_registered THEN "crop_begin" ELSE "return"
    /\ UNCHANGED << callerVars, l_dst_preview, l_src_preview, matched_vis, homog,
                    result_preview, result, band, border_crop, warnings, exc, ret, log,
                    pcaVars >>

\* line 122 and line 127: the loop is over; result is wrapped in a new DataArray
WarpDone ==
    /\ pc = "warp_band"
    /\ band > NumBands
    /\ pc' = IF crop_registered THEN "crop_begin" ELSE "return"
    /\ UNCHANGED << callerVars, l_dst_preview, l_src_preview, matched_vis, homog,
                    result_preview, result, band, border_crop, warnings, exc, ret, log,
                    pcaVars >>

\* lines 123-125: warn and return (None, None, matched_vis)
Except ==
    /\ pc = "except"
    /\ warnings' = Append(warnings, exc.val.msg)
    /\ ret' = Some(<< None, None, matched_vis >>)
    /\ pc' = "done"
    /\ UNCHANGED << callerVars, l_dst_preview, l_src_preview, matched_vis, homog,
                    result_preview, result, band, border_crop, exc, log, pcaVars >>

\* lines 127-128
CropBegin ==
    /\ pc = "crop_begin"
    /\ border_crop' = 0
    /\ pc' = "crop"
    /\ log' = Append(log, "crop")
    /\ UNCHANGED << callerVars, l_dst_preview, l_src_preview, matched_vis, homog,
                    result_preview, result, band, warnings, exc, ret, pcaVars >>

\* lines 129-131, one iteration: result becomes a view without its border
CropStep ==
    /\ pc = "crop"
    /\ AnyNegative(result.data)
    /\ result' = [result EXCEPT !.data = CropBorder(result.data)]
    /\ border_crop' = border_crop + 1
    /\ UNCHANGED << callerVars, pc, l_dst_preview, l_src_preview, matched_vis, homog,
                    result_preview, band, warnings, exc, ret, log, pcaVars >>

\* line 129 false, line 132
CropEnd ==
    /\ pc = "crop"
    /\ ~AnyNegative(result.data)
    /\ pc' = "return"
    /\ UNCHANGED << callerVars, l_dst_preview, l_src_preview, matched_vis, homog,
                    result_preview, result, band, border_crop, warnings, exc, ret, log,
                    pcaVars >>

\* line 134
Return ==
    /\ pc = "return"
    /\ ret' = Some(<< Some(result.data), result_preview, matched_vis >>)
    /\ pc' = "done"
    /\ UNCHANGED << callerVars, l_dst_preview, l_src_preview, matched_vis, homog,
                    result_preview, result, band, border_crop, warnings, exc, log, pcaVars >>

Next ==
    \/ ToGray
    \/ Detect
    \/ Match
    \/ EstimateFound
    \/ EstimateNone
    \/ EstimateError
    \/ Validate
    \/ WarpPreview
    \/ ZerosLike
    \/ WarpBand
    \/ WarpError
    \/ WarpDone
    \/ Except
    \/ CropBegin
    \/ CropStep
    \/ CropEnd
    \/ Return

Spec == Init /\ [][Next]_vars

\* --------------------------------------------------------------------- pca
\* model.explained_variance_: sklearn sorts the components by decreasing variance
VarianceSpectra ==
    { ev \in [1..PcaBands -> 0..MaxVar] :
        /\ ev[1] > 0
        /\ \A i \in 1..(PcaBands - 1) : ev[i] >= ev[i + 1] }

RECURSIVE SumTo(_, _)
SumTo(ev, i) == IF i = 0 THEN 0 ELSE ev[i] + SumTo(ev, i - 1)

\* np.cumsum(model.explained_variance_); line 47 divides it by its last element
cumsum(ev) == [i \in 1..Len(ev) |-> SumTo(ev, i)]

\* np.where(total_var <= min_contained_var)[0], as 0-based indices
WhereAtMost(ev, mcv) ==
    { i \in 0..(Len(ev) - 1) : cumsum(ev)[i + 1] * VarDen <= mcv * cumsum(ev)[Len(ev)] }

SetMax(S) == CHOOSE m \in S : \A x \in S : x <= m

\* lines 48-51: the number of components to keep, or the IndexError of [-1]
\* on an empty array; [error, keep]
KeepComponents(ev, n, mcv) ==
    IF mcv > 0
    THEN IF WhereAtMost(ev, mcv) = {} THEN [error |-> "IndexError", keep |-> 0]
         ELSE [error |-> "", keep |-> Max(SetMax(WhereAtMost(ev, mcv)), n)]
    ELSE [error |-> "", keep |-> n]

RegIdle ==
    /\ pc = "idle"
    /\ dst_preview = None /\ dst_cube = None /\ src_preview = None /\ src_cube = None
    /\ crop_registered = FALSE
    /\ args0 = None
    /\ l_dst_preview = None /\ l_src_preview = None
    /\ matched_vis = None /\ homog = None /\ result_preview = None /\ result = None
    /\ band = 1 /\ border_crop = 0
    /\ warnings = << >> /\ exc = None /\ ret = None /\ log = << >>

\* the state at the call of pca
InitPca ==
    /\ RegIdle
    /\ pca_pc = "check"
    /\ explained_variance \in VarianceSpectra
    /\ n_components \in 1..(PcaBands + 1)
    /\ min_contained_var \in (-1)..(VarDen + 1)
    /\ keep_components = 0
    /\ pca_out = [error |-> "", components |-> 0]

\* lines 36-38
PcaCheck ==
    /\ pca_pc = "check"
    /\ IF min_contained_var > VarDen \/ min_contained_var < 0
       THEN /\ pca_pc' = "raised"
            /\ pca_out' = [error |-> "ValueError", components |-> 0]
       ELSE /\ pca_pc' = "select"
            /\ pca_out' = pca_out
    /\ UNCHANGED << regVars, explained_variance, n_components, min_contained_var,
                    keep_components >>

\* lines 46-51
PcaSelect ==
    /\ pca_pc = "select"
    /\ LET k == KeepComponents(explained_variance, n_components, min_contained_var)
       IN IF k.error # ""
          THEN /\ pca_pc' = "raised"
               /\ pca_out' = [error |-> k.error, components |-> 0]
               /\ keep_components' = keep_components
          ELSE /\ pca_pc' = "build"
               /\ pca_out' = pca_out
               /\ keep_components' = k.keep
    /\ UNCHANGED << regVars, explained_variance, n_components, min_contained_var >>

\* lines 52-56: zip stops at the shorter of arange(keep_components) and the
\* components; pca_out is the number of components in the returned dataset
PcaReturn ==
    /\ pca_pc = "build"
    /\ pca_out' = [error |-> "", components |-> Min(keep_components, Len(explained_variance))]
    /\ pca_pc' = "done"
    /\ UNCHANGED << regVars, explained_variance, n_components, min_contained_var,
                    keep_components >>

NextPca ==
    \/ PcaCheck
    \/ PcaSelect
    \/ PcaReturn

SpecPca == InitPca /\ [][NextPca]_vars

\* ------------------------------------------------------------------ claims
\* the near-fronto-parallel assumption fails for h: orientation reversed,
\* 3x3 determinant close to 0, unit-square area outside [0.9, 1.1], or a
\* perspective entry above 0.001 in magnitude
AssumptionViolated(h) ==
    \/ Det2(h) < 0
    \/ IsCloseToZero(Det3(h))
    \/ Area2(h) < AreaLow2
    \/ Area2(h) > AreaHigh2
    \/ Abs(h[3][1]) > PerspLimit
    \/ Abs(h[3][2]) > PerspLimit

\* C1: once validation has run on an estimated homography that violates the
\* near-fronto-parallel assumption, register has raised ValueError and has
\* produced neither a registered cube nor a warped preview, and returns nothing.
C1_RejectsViolations ==
    (homog.some /\ pc # "validate" /\ AssumptionViolated(homog.val)) =>
        /\ pc = "raised"
        /\ exc.some
        /\ exc.val.type = "ValueError"
        /\ ~ret.some
        /\ ~result.some
        /\ ~result_preview.some

\* a homography whose only violation is |h[2, 1]| > 0.001 has been rejected
C1_Witness ==
    /\ pc = "raised"
    /\ homog.some
    /\ Det2(homog.val) > 0
    /\ ~IsCloseToZero(Det3(homog.val))
    /\ Area2(homog.val) >= AreaLow2
    /\ Area2(homog.val) <= AreaHigh2
    /\ Abs(homog.val[3][1]) <= PerspLimit
    /\ Abs(homog.val[3][2]) > PerspLimit

\* the steps of a complete run, in order
FullLog ==
    << "detect", "match", "estimate", "validate", "warp_preview" >>
    \o [i \in 1..NumBands |-> "warp_band"] \o << "crop" >>

\* C2: the steps taken so far are always a prefix of detect, match, estimate,
\* validate, warp (preview, then every band), crop; a preview or a band has
\* been warped only with an estimated homography that passed validation, and
\* cropping has started only after every band was warped.
C2_PipelineOrder ==
    /\ Len(log) <= Len(FullLog)
    /\ \A i \in 1..Len(log) : log[i] = FullLog[i]
    /\ (result_preview.some \/ result.some \/ Len(log) > 4) =>
          /\ homog.some
          /\ ~AssumptionViolated(homog.val)
          /\ Len(log) >= 4
    /\ (border_crop > 0 \/ pc \in {"crop_begin", "crop"}) =>
          /\ band = NumBands + 1
          /\ Len(log) >= 5 + NumBands

\* a run that warped every band and then trimmed the border has finished
C2_Witness ==
    /\ pc = "done"
    /\ border_crop > 0
    /\ log = FullLog

\* C3: when register returns a cube with crop_registered = FALSE, the cube has
\* the shape of dst_cube and each band b of it is the warp of band b of
\* src_cube with the validated homography, at the destination preview's width
\* and height, filled with -999 outside the source.
C3_EveryBandWarped ==
    (pc = "done" /\ ret.val[1].some /\ ~crop_registered) =>
        /\ Rows(ret.val[1].val) = Rows(args0.dst_cube)
        /\ Cols(ret.val[1].val) = Cols(args0.dst_cube)
        /\ \A b \in 1..NumBands :
              Band(ret.val[1].val, b) =
                  warpPerspective(Band(args0.src_cube, b), homog.val,
                                  << Cols(args0.dst_preview.data),
                                     Rows(args0.dst_preview.data) >>,
                                  BorderValue * PixScale)

\* an uncropped cube was returned whose warp moved pixels and filled a border
C3_Witness ==
    /\ pc = "done"
    /\ ~crop_registered
    /\ ret.val[1].some
    /\ ret.val[1].val # args0.src_cube
    /\ \E r \in 1..ImgSize, c \in 1..ImgSize, b \in 1..NumBands :
          ret.val[1].val[r][c][b] = BorderValue * PixScale
    /\ \E r \in 1..ImgSize, c \in 1..ImgSize, b \in 1..NumBands :
          ret.val[1].val[r][c][b] > 0

\* C4: when register returns a cube with crop_registered = TRUE, no element
\* of the cube is negative, so none holds the -999 fill value.
C4_NoNegativeAfterCrop ==
    (pc = "done" /\ ret.val[1].some /\ crop_registered) =>
        \A r \in 1..Len(ret.val[1].val) :
            \A c \in 1..Len(ret.val[1].val[r]) :
                \A b \in 1..NumBands : ret.val[1].val[r][c][b] >= 0

\* a cube that had border pixels trimmed was returned with pixels left in it
C4_Witness ==
    /\ pc = "done"
    /\ crop_registered
    /\ ret.val[1].some
    /\ border_crop > 0
    /\ Len(ret.val[1].val) > 0

\* C5: at every point of register, and after it returned or raised, the
\* caller's dst_preview, dst_cube, src_preview and src_cube hold the values
\* they had at the call, and the result lives in a fresh array.
C5_InputsUnchanged ==
    pc # "idle" =>
        /\ dst_preview = args0.dst_preview
        /\ dst_cube = args0.dst_cube
        /\ src_preview = args0.src_preview
        /\ src_cube = args0.src_cube
        /\ result.some => result.ref = "fresh"

\* register returned a cube after writing non-zero values into the result,
\* with colour previews that were converted to grey
C5_Witness ==
    /\ pc = "done"
    /\ ret.val[1].some
    /\ dst_preview.ndim = 3
    /\ l_dst_preview # dst_preview
    /\ \E r \in 1..Len(result.data) : \E c \in 1..Len(result.data[r]) :
          \E b \in 1..NumBands : result.data[r][c][b] # 0

NoneResult == Some(<< None, None, matched_vis >>)

\* C6: a cv2.error raised in register (no homography found, or OpenCV failing
\* while estimating or warping) is caught: register warns once with its
\* message and returns (None, None, matched_vis), and a returned cube and
\* preview are None together; a ValueError (a rejected homography) is not
\* caught: it leaves register with no warning and no return value.
C6_FailureOutcomes ==
    /\ (exc.some /\ exc.val.type = "cv2.error") => pc \in {"except", "done"}
    /\ (exc.some /\ exc.val.type = "ValueError") =>
          /\ pc = "raised"
          /\ ~ret.some
          /\ warnings = << >>
    /\ (pc = "done" /\ exc.some) =>
          /\ ret = NoneResult
          /\ warnings = << exc.val.msg >>
    /\ (pc = "done" /\ ~exc.some) =>
          /\ ret.val[1].some
          /\ ret.val[2].some
          /\ ret.val[3] = matched_vis
          /\ warnings = << >>
    /\ (pc \in {"done", "raised"} /\ ~homog.some) =>
          /\ pc = "done"
          /\ ret = NoneResult
    /\ (homog.some /\ pc # "validate" /\ AssumptionViolated(homog.val)) =>
          /\ pc = "raised"
          /\ exc.val.type = "ValueError"

\* no homography was found: register warned and returned the None result
C6_Witness ==
    /\ pc = "done"
    /\ ~homog.some
    /\ Len(warnings) = 1
    /\ ret = NoneResult
    /\ matched_vis.some

\* cumulative explained variance of the first k components
Contained(ev, k) == IF k = 0 THEN 0 ELSE cumsum(ev)[k]

\* C7: for min_contained_var in (0, 1], pca returns without error, the
\* components it returns hold at least the fraction min_contained_var of the
\* total explained variance, and it returns at least n_components components
\* when that many exist.
C7_MinContainedVariance ==
    (pca_pc \in {"done", "raised"} /\ min_contained_var > 0 /\ min_contained_var <= VarDen) =>
        /\ pca_pc = "done"
        /\ pca_out.error = ""
        /\ Contained(explained_variance, pca_out.components) * VarDen
              >= min_contained_var * Contained(explained_variance, PcaBands)
        /\ pca_out.components >= Min(n_components, PcaBands)

====
